---------------------------- MODULE Spec2Model ----------------------------
(***************************************************************************)
(* The three WordHex command-line scripts as one state machine:            *)
(*   "schema"   setup-schema.py      (read SQL file, probe tables, print)  *)
(*   "simple"   seed-data-simple.py  (basic seeder + post-seed verify)     *)
(*   "extended" seed-data.py         (extended seeder)                     *)
(* The remote data API and the local SQL file are the environment: every   *)
(* request's reply and the file's bytes are chosen nondeterministically.   *)
(* Spec      one run of one script against an arbitrary remote.            *)
(* SpecStore a seeder run repeatedly against a persistent words table that *)
(*           enforces uniqueness of value, over a lossy network.           *)
(***************************************************************************)
EXTENDS Integers, Sequences, FiniteSets, TLC

VARIABLES
    script,        \* which program runs
    pc,            \* position in main()
    exitCode,      \* -1 while running, then the process exit code
    out,           \* console lines printed since the last HTTP request was issued
    reply,         \* the outcome of the last HTTP request
    requests,      \* number of HTTP requests issued by this process
    timeouts,      \* how many of them ended in a timeout
    i,             \* add_words: number of SAMPLE_WORDS entries already iterated
    added,         \* add_words: local counter
    failed,        \* add_words: local counter
    conflicts,     \* number of "HTTP 409" lines printed by this process
    posted,        \* indices of SAMPLE_WORDS POSTed by this process, in order
    file,          \* supabase_schema.sql: [exists, bytes]
    encoding,      \* the platform's default text encoding
    sql,           \* main's local sql: the decoded text
    checked,       \* verify_tables: number of tables_to_check already iterated
    found_tables,  \* verify_tables: local list
    reports,       \* the report line kind printed for each checked table
    tables,        \* remote truth: the tables that exist
    run,           \* how many times the script has been started
    store,         \* remote truth: the values held by the words table
    storeAtStart,  \* the store when this process started
    faults         \* transport failures so far (SpecStore's budget)

vars == <<script, pc, exitCode, out, reply, requests, timeouts, i, added, failed,
          conflicts, posted, file, encoding, sql, checked, found_tables, reports,
          tables, run, store, storeAtStart, faults>>

seederVars == <<i, added, failed, conflicts, posted>>
schemaVars == <<file, encoding, sql, checked, found_tables, reports, tables>>
storeVars  == <<run, store, storeAtStart, faults>>

----------------------------------------------------------------------------
(* Bounds of the model *)

\* longest SQL file, in bytes
MaxSqlBytes == 2
\* how many times SpecStore starts the seeder
MaxRuns == 2
\* transport failures SpecStore's network may inject over all runs
MaxFaults == 2

----------------------------------------------------------------------------
(* Program constants *)

\* the value fields of SAMPLE_WORDS (the same 15, in the same order, in both seeders)
SAMPLE_WORDS ==
    << "PYTHON", "DATABASE", "ALGORITHM", "JAVASCRIPT", "HEXAGON",
       "ENCRYPTION", "VARIABLE", "LOCALHOST", "DEBUGGING", "FUNCTION",
       "TYPESCRIPT", "FIREWALL", "PROTOCOL", "COMPILER", "SUPABASE" >>

NumWords == Len(SAMPLE_WORDS)

WordSet == { SAMPLE_WORDS[k] : k \in 1..NumWords }

tables_to_check == << "player_stats", "words", "match_history" >>

NumTables == Len(tables_to_check)

\* verify(): GET /rest/v1/words?limit=5
VerifyLimit == 5

Scripts == { "schema", "simple", "extended" }
Seeders == { "simple", "extended" }

----------------------------------------------------------------------------
(* HTTP outcomes: a response with a status (and, for the verify read, a    *)
(* body), or an exception raised by requests.                              *)

NoBody == [json |-> "none", n |-> 0, hasValue |-> FALSE]

Response(s) == [kind |-> "response", status |-> s, exc |-> "", body |-> NoBody]

ResponseWith(s, b) == [kind |-> "response", status |-> s, exc |-> "", body |-> b]

Raised(e) == [kind |-> "exception", status |-> 0, exc |-> e, body |-> NoBody]

NoReply == [kind |-> "none", status |-> 0, exc |-> "", body |-> NoBody]

TransportErrors == { "Timeout", "ConnectionError" }

\* what an arbitrary remote may answer to POST /rest/v1/words
PostStatuses == { 200, 201, 409, 500 }

PostReplies == { Response(s) : s \in PostStatuses } \cup { Raised(e) : e \in TransportErrors }

\* bodies of the verify read: a JSON list of n rows (whose first row has a
\* 'value' key or not), a JSON object (an API error), or text that is not JSON
VerifyBodies ==
    { [json |-> "list", n |-> n, hasValue |-> TRUE] : n \in 0..VerifyLimit }
    \cup { [json |-> "list", n |-> 1, hasValue |-> FALSE],
           [json |-> "object", n |-> 0, hasValue |-> FALSE],
           [json |-> "invalid", n |-> 0, hasValue |-> FALSE] }

VerifyReplies ==
    { ResponseWith(200, b) : b \in VerifyBodies }
    \cup { ResponseWith(401, [json |-> "object", n |-> 0, hasValue |-> FALSE]),
           ResponseWith(502, [json |-> "invalid", n |-> 0, hasValue |-> FALSE]) }
    \cup { Raised(e) : e \in TransportErrors }

\* what the remote answers to GET /rest/v1/<table>?limit=0: 200 for a table
\* that exists, 404 for one that does not, or the request fails
ProbeReplies(table) ==
    { Response(IF table \in tables THEN 200 ELSE 404), Response(500) }
    \cup { Raised(e) : e \in TransportErrors }

----------------------------------------------------------------------------
(* Console lines *)

Line(tag, word, num) == [tag |-> tag, word |-> word, num |-> num, text |-> <<>>]

TextLine(tag, text) == [tag |-> tag, word |-> "", num |-> 0, text |-> text]

Printed(tag) == \E k \in DOMAIN out : out[k].tag = tag

Tags(lines) == [k \in DOMAIN lines |-> lines[k].tag]


----------------------------------------------------------------------------
(* Record seeder: add_words() of seed-data-simple.py and seed-data.py *)

\* a conflict taken for a success
StatusAdded_WithConflict(status) == status \in {201, 200, 409}

\* `if response.status_code in [201, 200]`
StatusAdded(status) == status \in {201, 200}

\* an except clause that names one exception class only
Caught_OnlyConnection(exc) == exc = "ConnectionError"

\* no except clause around the request
Caught_None(exc) == FALSE

\* `except Exception as e` around each request: every exception requests
\* raises for a transport failure is an Exception
Caught(exc) == exc \in TransportErrors

\* the basic seeder's `if response.status_code == 409: print("(Already exists)")`;
\* the extended seeder has no such statement
AnnotatesConflict(status) == script = "simple" /\ status = 409

\* the lines one loop iteration prints for record `word`
WordLines(word, r) ==
    IF r.kind = "exception" THEN << Line("error", word, 0) >>
    ELSE IF StatusAdded(r.status) THEN << Line("added", word, 0) >>
    ELSE << Line("http_status", word, r.status) >>
         \o (IF AnnotatesConflict(r.status)
             THEN << Line("already_exists", "", 0) >> ELSE << >>)

AddedAfter(r) ==
    IF r.kind = "response" /\ StatusAdded(r.status) THEN added + 1 ELSE added

\* an except branch that prints and forgets to count
FailedAfter_SkipsErrors(r) ==
    IF r.kind = "response" /\ ~StatusAdded(r.status) THEN failed + 1 ELSE failed

FailedAfter(r) ==
    IF r.kind = "response" /\ StatusAdded(r.status) THEN failed ELSE failed + 1

\* main()'s `except Exception as e: print(...); sys.exit(1)`
TopLevelHandler ==
    /\ out' = << Line("fatal", "", 0) >>
    /\ exitCode' = 1
    /\ pc' = "done"

\* main() prints the banner and calls add_words(), which prints its heading
\* and zeroes its counters
SeedStart ==
    /\ script \in Seeders
    /\ pc = "start"
    /\ out' = << Line("banner", "", 0), Line("adding", "", 0) >>
    /\ added' = 0
    /\ failed' = 0
    /\ pc' = "add_words"
    /\ UNCHANGED <<script, exitCode, reply, requests, timeouts, i, conflicts, posted>>
    /\ UNCHANGED schemaVars

\* one iteration of `for word in SAMPLE_WORDS`: one POST, answered by r
AddWord(r) ==
    /\ script \in Seeders
    /\ pc = "add_words"
    /\ i < NumWords
    /\ i' = i + 1
    /\ posted' = Append(posted, i + 1)
    /\ requests' = requests + 1
    /\ timeouts' = IF r = Raised("Timeout") THEN timeouts + 1 ELSE timeouts
    /\ reply' = r
    /\ IF r.kind = "exception" /\ ~Caught(r.exc)
       THEN /\ TopLevelHandler
            /\ UNCHANGED <<added, failed, conflicts>>
       ELSE /\ out' = WordLines(SAMPLE_WORDS[i + 1], r)
            /\ added' = AddedAfter(r)
            /\ failed' = FailedAfter(r)
            /\ conflicts' = IF r.kind = "response" /\ ~StatusAdded(r.status) /\ r.status = 409
                            THEN conflicts + 1 ELSE conflicts
            /\ UNCHANGED <<pc, exitCode>>
    /\ UNCHANGED script
    /\ UNCHANGED schemaVars

\* the loop is over: add_words prints its summary and returns to main
AddWordsReturn ==
    /\ script \in Seeders
    /\ pc = "add_words"
    /\ i = NumWords
    /\ out' = out \o << Line("summary_added", "", added) >>
                  \o (IF failed > 0 THEN << Line("summary_failed", "", failed) >> ELSE << >>)
    /\ pc' = IF script = "simple" THEN "verify" ELSE "complete"
    /\ UNCHANGED <<script, exitCode, reply, requests, timeouts>>
    /\ UNCHANGED seederVars
    /\ UNCHANGED schemaVars

(* Post-seed verifier: verify() of seed-data-simple.py *)

\* a verify() that reports "no words" for whatever is not a non-empty list,
\* an undecodable body included
VerifyLines_NoWordsOnBadBody(r) ==
    IF r.kind = "exception" THEN << Line("could_not_verify", "", 0) >>
    ELSE IF r.body.json = "list" /\ r.body.n > 0
         THEN << Line("contains", "", r.body.n), Line("sample", "", 0) >>
    ELSE << Line("no_words", "", 0) >>

\* the lines verify() prints once its GET has returned r
VerifyLines(r) ==
    IF r.kind = "exception" THEN << Line("could_not_verify", "", 0) >>
    ELSE IF r.body.json = "invalid"
         THEN << Line("could_not_verify", "", 0) >>               \* response.json() raises
    ELSE IF r.body.json = "list" /\ r.body.n > 0
         THEN IF r.body.hasValue
              THEN << Line("contains", "", r.body.n), Line("sample", "", 0) >>
              ELSE << Line("contains", "", r.body.n),              \* words[0]['value'] raises
                      Line("could_not_verify", "", 0) >>
    ELSE << Line("no_words", "", 0) >>

\* verify(): one GET /rest/v1/words?limit=5, answered by r
Verify(r) ==
    /\ script = "simple"
    /\ pc = "verify"
    /\ requests' = requests + 1
    /\ timeouts' = IF r = Raised("Timeout") THEN timeouts + 1 ELSE timeouts
    /\ reply' = r
    /\ IF r.kind = "exception" /\ ~Caught(r.exc)
       THEN TopLevelHandler
       ELSE /\ out' = VerifyLines(r)
            /\ pc' = "complete"
            /\ UNCHANGED exitCode
    /\ UNCHANGED script
    /\ UNCHANGED seederVars
    /\ UNCHANGED schemaVars

\* main() prints the closing lines and returns: the process exits with 0
SeedComplete ==
    /\ script \in Seeders
    /\ pc = "complete"
    /\ out' = out \o << Line("complete", "", 0), Line("app_ready", "", 0) >>
    /\ exitCode' = 0
    /\ pc' = "done"
    /\ UNCHANGED <<script, reply, requests, timeouts>>
    /\ UNCHANGED seederVars
    /\ UNCHANGED schemaVars

----------------------------------------------------------------------------
(* Schema reporter: setup-schema.py *)

\* the bytes an SQL file of the model is made of: "a", CR, LF, and the two
\* bytes of the UTF-8 encoding of U+00E9
ByteA == 97
ByteCR == 13
ByteLF == 10
ByteLead == 195
ByteCont == 169
CharEAcute == 233

FileBytes == { ByteA, ByteCR, ByteLF, ByteLead, ByteCont }

Encodings == { "utf-8", "cp1252" }

\* whether open(..., 'r') can decode the bytes (else f.read() raises
\* UnicodeDecodeError): every cp1252 byte of the model is defined; in UTF-8 a
\* lead byte needs its continuation byte and a continuation byte its lead
Decodable(enc, bytes) ==
    \/ enc = "cp1252"
    \/ \A k \in 1..Len(bytes) :
         /\ bytes[k] = ByteLead => (k < Len(bytes) /\ bytes[k + 1] = ByteCont)
         /\ bytes[k] = ByteCont => (k > 1 /\ bytes[k - 1] = ByteLead)

\* the code points the bytes decode to
RECURSIVE Decode(_, _)
Decode(enc, bytes) ==
    IF bytes = << >> THEN << >>
    ELSE IF enc = "utf-8" /\ Head(bytes) = ByteLead
         THEN << CharEAcute >> \o Decode(enc, SubSeq(bytes, 3, Len(bytes)))
    ELSE << Head(bytes) >> \o Decode(enc, Tail(bytes))

\* text mode's universal newlines (newline=None): CR LF and a lone CR are
\* both read as LF
RECURSIVE TranslateNewlines(_)
TranslateNewlines(chars) ==
    IF chars = << >> THEN << >>
    ELSE IF Head(chars) = ByteCR
         THEN IF Len(chars) >= 2 /\ chars[2] = ByteLF
              THEN << ByteLF >> \o TranslateNewlines(SubSeq(chars, 3, Len(chars)))
              ELSE << ByteLF >> \o TranslateNewlines(Tail(chars))
    ELSE << Head(chars) >> \o TranslateNewlines(Tail(chars))

\* read_sql_file(): `with open(sql_path, 'r') as f: return f.read()`
read_sql_file(enc, bytes) == TranslateNewlines(Decode(enc, bytes))

\* the number main() prints in "Loaded SQL schema file (... bytes)"
LoadedCount(text) == Len(text)

\* `if response.status_code == 200`
ProbeOK(status) == status = 200

\* a verifier that reports a transport failure as an absent table
ReportOf_Conflated(r) ==
    IF r.kind = "response" /\ r.status = 200 THEN "exists" ELSE "not_found"

\* the kind of line verify_tables prints for one probe
ReportOf(r) ==
    IF r.kind = "exception" THEN "could_not_verify"
    ELSE IF ProbeOK(r.status) THEN "exists"
    ELSE "not_found"

\* a verifier satisfied by any one table
TablesExist_Any(found) == Len(found) > 0

\* verify_tables' return value
TablesExist(found) == Len(found) = Len(tables_to_check)

\* the closing line of verify_tables
SummaryLine(found) ==
    IF Len(found) = Len(tables_to_check) THEN Line("all_exist", "", Len(found))
    ELSE IF Len(found) > 0 THEN Line("some_exist", "", Len(found))
    ELSE Line("none_found", "", 0)

\* instructions that print the SQL text ahead of all the steps
InstructionLines_SqlFirst(text) ==
    << Line("banner", "", 0), Line("important", "", 0), Line("manual_steps", "", 0),
       Line("rule", "", 0),
       TextLine("sql", text),
       Line("rule", "", 0),
       Line("step", "", 1), Line("step", "", 2), Line("step", "", 3),
       Line("step", "", 4), Line("step", "", 5), Line("step", "", 6),
       Line("step", "", 7), Line("step", "", 8),
       Line("once_complete", "", 0),
       Line("walkthrough", "", 0), Line("walkthrough_url", "", 0) >>

\* execute_sql_via_dashboard(sql), then main's two closing lines
InstructionLines(text) ==
    << Line("banner", "", 0), Line("important", "", 0), Line("manual_steps", "", 0),
       Line("rule", "", 0),
       Line("step", "", 1), Line("step", "", 2), Line("step", "", 3),
       Line("step", "", 4), Line("step", "", 5), Line("step", "", 6),
       Line("rule", "", 0),
       TextLine("sql", text),
       Line("rule", "", 0),
       Line("step", "", 7), Line("step", "", 8),
       Line("once_complete", "", 0),
       Line("walkthrough", "", 0), Line("walkthrough_url", "", 0) >>

\* main(): sql = read_sql_file(); print the loaded line; enter verify_tables
ReadSql ==
    /\ script = "schema"
    /\ pc = "start"
    /\ IF ~file.exists
       THEN /\ out' = << Line("sql_not_found", "", 0), Line("wrong_directory", "", 0) >>
            /\ exitCode' = 1
            /\ pc' = "done"
            /\ UNCHANGED sql
       ELSE IF ~Decodable(encoding, file.bytes)
       THEN /\ TopLevelHandler
            /\ UNCHANGED sql
       ELSE /\ sql' = read_sql_file(encoding, file.bytes)
            /\ out' = << Line("loaded", "", LoadedCount(sql')), Line("verifying", "", 0) >>
            /\ pc' = "verify_tables"
            /\ UNCHANGED exitCode
    /\ UNCHANGED <<script, reply, requests, timeouts>>
    /\ UNCHANGED seederVars
    /\ UNCHANGED <<file, encoding, checked, found_tables, reports, tables>>

\* one iteration of `for table in tables_to_check`: one GET, answered by r
Probe(r) ==
    /\ script = "schema"
    /\ pc = "verify_tables"
    /\ checked < NumTables
    /\ checked' = checked + 1
    /\ requests' = requests + 1
    /\ timeouts' = IF r = Raised("Timeout") THEN timeouts + 1 ELSE timeouts
    /\ reply' = r
    /\ IF r.kind = "exception" /\ ~Caught(r.exc)
       THEN /\ TopLevelHandler
            /\ UNCHANGED <<found_tables, reports>>
       ELSE /\ out' = << Line(ReportOf(r), tables_to_check[checked + 1], r.status) >>
            /\ found_tables' = IF r.kind = "response" /\ ProbeOK(r.status)
                               THEN Append(found_tables, tables_to_check[checked + 1])
                               ELSE found_tables
            /\ reports' = Append(reports, [table |-> tables_to_check[checked + 1],
                                           reply |-> r,
                                           line |-> ReportOf(r)])
            /\ UNCHANGED <<pc, exitCode>>
    /\ UNCHANGED script
    /\ UNCHANGED seederVars
    /\ UNCHANGED <<file, encoding, sql, tables>>

\* the loop is over: verify_tables prints its closing line and returns
VerifyTablesReturn ==
    /\ script = "schema"
    /\ pc = "verify_tables"
    /\ checked = NumTables
    /\ out' = out \o << SummaryLine(found_tables) >>
    /\ pc' = IF TablesExist(found_tables) THEN "tables_exist" ELSE "tables_missing"
    /\ UNCHANGED <<script, exitCode, reply, requests, timeouts>>
    /\ UNCHANGED seederVars
    /\ UNCHANGED schemaVars

\* `if not tables_exist:` show the manual instructions; main returns
ShowInstructions ==
    /\ script = "schema"
    /\ pc = "tables_missing"
    /\ out' = out \o InstructionLines(sql)
    /\ exitCode' = 0
    /\ pc' = "done"
    /\ UNCHANGED <<script, reply, requests, timeouts>>
    /\ UNCHANGED seederVars
    /\ UNCHANGED schemaVars

\* tables_exist is true: main returns
SchemaReturn ==
    /\ script = "schema"
    /\ pc = "tables_exist"
    /\ exitCode' = 0
    /\ pc' = "done"
    /\ UNCHANGED <<script, out, reply, requests, timeouts>>
    /\ UNCHANGED seederVars
    /\ UNCHANGED schemaVars

----------------------------------------------------------------------------
(* The process as started by the operating system *)

RECURSIVE SeqsUpTo(_, _)
SeqsUpTo(S, n) ==
    IF n = 0 THEN { << >> }
    ELSE LET shorter == SeqsUpTo(S, n - 1)
         IN  shorter \cup { Append(q, x) : q \in shorter, x \in S }

SqlFiles ==
    { [exists |-> FALSE, bytes |-> << >>] }
    \cup { [exists |-> TRUE, bytes |-> b] : b \in SeqsUpTo(FileBytes, MaxSqlBytes) }

NoFile == [exists |-> FALSE, bytes |-> << >>]

ProcessStart ==
    /\ pc = "start"
    /\ exitCode = -1
    /\ out = << >>
    /\ reply = NoReply
    /\ requests = 0
    /\ timeouts = 0
    /\ i = 0
    /\ added = 0
    /\ failed = 0
    /\ conflicts = 0
    /\ posted = << >>
    /\ sql = << >>
    /\ checked = 0
    /\ found_tables = << >>
    /\ reports = << >>

Init ==
    /\ script \in Scripts
    /\ ProcessStart
    /\ IF script = "schema"
       THEN /\ file \in SqlFiles
            /\ encoding \in Encodings
            /\ tables \in SUBSET { tables_to_check[k] : k \in 1..NumTables }
       ELSE /\ file = NoFile
            /\ encoding = "utf-8"
            /\ tables = { }
    /\ run = 1
    /\ store = { }
    /\ storeAtStart = { }
    /\ faults = 0

Next ==
    \/ SeedStart /\ UNCHANGED storeVars
    \/ (\E r \in PostReplies : AddWord(r)) /\ UNCHANGED storeVars
    \/ AddWordsReturn /\ UNCHANGED storeVars
    \/ (\E r \in VerifyReplies : Verify(r)) /\ UNCHANGED storeVars
    \/ SeedComplete /\ UNCHANGED storeVars
    \/ ReadSql /\ UNCHANGED storeVars
    \/ /\ checked < NumTables
       /\ \E r \in ProbeReplies(tables_to_check[checked + 1]) : Probe(r)
       /\ UNCHANGED storeVars
    \/ VerifyTablesReturn /\ UNCHANGED storeVars
    \/ ShowInstructions /\ UNCHANGED storeVars
    \/ SchemaReturn /\ UNCHANGED storeVars

Spec == Init /\ [][Next]_vars

----------------------------------------------------------------------------
(* A seeder started MaxRuns times against a words table that persists      *)
(* between the runs and enforces uniqueness of value.  A request either    *)
(* reaches the table and is answered, or times out (the row may or may not *)
(* have been inserted before the response was lost).                       *)

\* the table's answer to an insert of `word`
InsertStatus(word) == IF word \in store THEN 409 ELSE 201

\* the table's answer to GET /rest/v1/words?limit=5
SelectBody ==
    [json |-> "list",
     n |-> IF Cardinality(store) < VerifyLimit THEN Cardinality(store) ELSE VerifyLimit,
     hasValue |-> TRUE]

PostAnswered ==
    /\ i < NumWords
    /\ AddWord(Response(InsertStatus(SAMPLE_WORDS[i + 1])))
    /\ store' = store \cup { SAMPLE_WORDS[i + 1] }
    /\ UNCHANGED <<run, storeAtStart, faults>>

PostTimedOut ==
    /\ i < NumWords
    /\ faults < MaxFaults
    /\ AddWord(Raised("Timeout"))
    /\ store' \in { store, store \cup { SAMPLE_WORDS[i + 1] } }
    /\ faults' = faults + 1
    /\ UNCHANGED <<run, storeAtStart>>

VerifyAnswered ==
    /\ Verify(ResponseWith(200, SelectBody))
    /\ UNCHANGED storeVars

VerifyTimedOut ==
    /\ faults < MaxFaults
    /\ Verify(Raised("Timeout"))
    /\ faults' = faults + 1
    /\ UNCHANGED <<run, store, storeAtStart>>

\* the operator starts the same script again
Rerun ==
    /\ pc = "done"
    /\ run < MaxRuns
    /\ run' = run + 1
    /\ storeAtStart' = store
    /\ pc' = "start"
    /\ exitCode' = -1
    /\ out' = << >>
    /\ reply' = NoReply
    /\ requests' = 0
    /\ timeouts' = 0
    /\ i' = 0
    /\ added' = 0
    /\ failed' = 0
    /\ conflicts' = 0
    /\ posted' = << >>
    /\ sql' = << >>
    /\ checked' = 0
    /\ found_tables' = << >>
    /\ reports' = << >>
    /\ UNCHANGED <<script, file, encoding, tables, store, faults>>

InitStore ==
    /\ script \in Seeders
    /\ ProcessStart
    /\ file = NoFile
    /\ encoding = "utf-8"
    /\ tables = { }
    /\ run = 1
    /\ store \in { { }, WordSet }
    /\ storeAtStart = store
    /\ faults = 0

NextStore ==
    \/ SeedStart /\ UNCHANGED storeVars
    \/ PostAnswered
    \/ PostTimedOut
    \/ AddWordsReturn /\ UNCHANGED storeVars
    \/ VerifyAnswered
    \/ VerifyTimedOut
    \/ SeedComplete /\ UNCHANGED storeVars
    \/ Rerun

SpecStore == InitStore /\ [][NextStore]_vars

----------------------------------------------------------------------------
(* Claims *)

\* add_words has returned and main has done nothing since
AddWordsReturned ==
    /\ script \in Seeders
    /\ pc = (IF script = "simple" THEN "verify" ELSE "complete")

SchemaFinished == script = "schema" /\ pc = "done"

\* the position in out of the first line with this tag and number (0 if none)
PosOf(tag, num) ==
    IF \E k \in DOMAIN out : out[k].tag = tag /\ out[k].num = num
    THEN CHOOSE k \in DOMAIN out :
           /\ out[k].tag = tag /\ out[k].num = num
           /\ \A j \in 1..(k - 1) : ~(out[j].tag = tag /\ out[j].num = num)
    ELSE 0

\* C1 (as stated): in both seeders, a record whose POST returns 201 prints a
\* success line, adds exactly 1 to added and leaves failed alone; a record
\* whose POST returns 409 adds exactly 1 to failed, leaves added alone and
\* prints the "(Already exists)" annotation.
C1_AsStated ==
    [][ (script \in Seeders /\ i' = i + 1) =>
          /\ (reply'.kind = "response" /\ reply'.status = 201) =>
                /\ added' = added + 1
                /\ failed' = failed
                /\ \E k \in DOMAIN out' : out'[k].tag = "added"
          /\ (reply'.kind = "response" /\ reply'.status = 409) =>
                /\ failed' = failed + 1
                /\ added' = added
                /\ \E k \in DOMAIN out' : out'[k].tag = "already_exists"
      ]_vars

\* C2: for each probed table, the table is reported present, and is in
\* found_tables, exactly when its probe returned the success status (200);
\* a probe that failed in transport is reported "could not verify", never
\* "not found"; a probe answered with another status is reported "not found",
\* never "could not verify".
C2_ProbeReports ==
    script = "schema" =>
      /\ Len(reports) = checked
      /\ \A k \in DOMAIN reports :
           LET p == reports[k]
               success == p.reply.kind = "response" /\ p.reply.status = 200
               inFound == \E j \in DOMAIN found_tables : found_tables[j] = p.table
           IN  /\ p.table = tables_to_check[k]
               /\ (p.line = "exists") <=> success
               /\ inFound <=> success
               /\ p.reply.kind = "exception" => p.line = "could_not_verify"
               /\ (p.reply.kind = "response" /\ ~success) => p.line = "not_found"
      /\ (pc = "verify_tables" /\ checked > 0) =>
           (Len(out) = 1 /\ out[1].tag = reports[checked].line)

C2_Witness ==
    /\ script = "schema"
    /\ Len(reports) = NumTables
    /\ reports[1].line = "exists"
    /\ reports[2].reply = Raised("Timeout")
    /\ reports[2].line = "could_not_verify"
    /\ reports[3].reply = Response(404)
    /\ reports[3].line = "not_found"
    /\ found_tables = << "player_stats" >>

\* C3 (as stated): in the second run against a persistent store enforcing
\* uniqueness, all 15 records are classified as conflicts (409, counted in
\* failed) and added is 0.
C3_AsStated ==
    (run = 2 /\ AddWordsReturned) =>
      (added = 0 /\ failed = 15 /\ conflicts = 15)

\* C3 (amended): a run after the first adds only records the store did not
\* hold when that run started; if the store held all 15 then and no POST of
\* the run failed in transport, all 15 records are classified as conflicts
\* (409, counted in failed) and added is 0.
C3_Amended ==
    (run >= 2 /\ script \in Seeders) =>
      /\ added <= Cardinality(WordSet \ storeAtStart)
      /\ (AddWordsReturned /\ storeAtStart = WordSet /\ timeouts = 0) =>
           (added = 0 /\ failed = 15 /\ conflicts = 15)

C3_Witness ==
    /\ run = 2
    /\ AddWordsReturned
    /\ storeAtStart = WordSet
    /\ timeouts = 0
    /\ conflicts = 15
    /\ added = 0

\* C4: if every HTTP request of a seeder run timed out (the basic seeder's
\* verification read included), the run ends with added = 0, failed = 15 and
\* exit code 0.
C4_AllTimeouts ==
    (script \in Seeders /\ pc = "done" /\ timeouts = requests) =>
      (added = 0 /\ failed = 15 /\ exitCode = 0)

C4_Witness ==
    /\ script = "simple"
    /\ pc = "done"
    /\ requests = 16
    /\ timeouts = 16
    /\ failed = 15

\* every probe of the finished schema run was answered with a non-success status
NoTableFound ==
    /\ SchemaFinished
    /\ Len(reports) = NumTables
    /\ \A k \in DOMAIN reports :
         reports[k].reply.kind = "response" /\ reports[k].reply.status # 200

\* C5 (as stated): with no table found, the schema script reports 0 of 3
\* tables, then prints the full SQL text, then the 8 numbered steps after the
\* SQL text, and exits with 0.
C5_AsStated ==
    NoTableFound =>
      /\ exitCode = 0
      /\ Len(found_tables) = 0
      /\ PosOf("none_found", 0) > 0
      /\ PosOf("sql", 0) > PosOf("none_found", 0)
      /\ out[PosOf("sql", 0)].text = sql
      /\ \A n \in 1..8 : PosOf("step", n) > PosOf("sql", 0)

\* C5 (amended): with no table found, the schema script reports 0 of 3
\* tables, then prints steps 1 to 6, then the full SQL text, then steps 7 and
\* 8, and exits with 0.
C5_Amended ==
    NoTableFound =>
      /\ exitCode = 0
      /\ Len(found_tables) = 0
      /\ PosOf("none_found", 0) > 0
      /\ PosOf("step", 1) > PosOf("none_found", 0)
      /\ \A n \in 1..5 : PosOf("step", n + 1) > PosOf("step", n)
      /\ PosOf("sql", 0) > PosOf("step", 6)
      /\ out[PosOf("sql", 0)].text = sql
      /\ sql = read_sql_file(encoding, file.bytes)
      /\ PosOf("step", 7) > PosOf("sql", 0)
      /\ PosOf("step", 8) > PosOf("step", 7)
      /\ Cardinality({ k \in DOMAIN out : out[k].tag = "step" }) = 8

C5_Witness ==
    /\ NoTableFound
    /\ tables = { }
    /\ Len(sql) = 2
    /\ PosOf("sql", 0) > PosOf("step", 6)
    /\ exitCode = 0

\* C6: when a run is over the exit code is 0 or 1; it is 1 exactly when the
\* SQL file is missing or an exception reached main's handler, which no
\* outcome of an HTTP request causes (only an SQL file that cannot be
\* decoded does); failed records and unverified tables leave it 0.
C6_ExitCode ==
    /\ pc # "done" => exitCode = -1
    /\ pc = "done" =>
         /\ exitCode \in {0, 1}
         /\ exitCode = 1 <=>
              \/ script = "schema" /\ ~file.exists
              \/ Printed("fatal")
         /\ Printed("fatal") =>
              (script = "schema" /\ requests = 0 /\ ~Decodable(encoding, file.bytes))

C6_Witness ==
    /\ script = "extended"
    /\ pc = "done"
    /\ exitCode = 0
    /\ failed = 15
    /\ timeouts = 7
    /\ conflicts = 4

\* C7 (as stated): the schema script prints the SQL text and the manual
\* steps if and only if at least one of the three tables is missing on the
\* remote side.
C7_AsStated ==
    (SchemaFinished /\ exitCode = 0) =>
      /\ Printed("sql") <=> (\E k \in 1..NumTables : tables_to_check[k] \notin tables)
      /\ Printed("step") <=> Printed("sql")

\* C7 (amended): the schema script prints the SQL text and the manual steps
\* if and only if at least one of the three tables was not found present by
\* its probe (the probe did not return 200: the table is absent or could not
\* be verified); the decision depends only on the count of tables found.
C7_Amended ==
    SchemaFinished =>
      /\ exitCode = 0 =>
           /\ Printed("sql") <=> Len(found_tables) < NumTables
           /\ Printed("step") <=> Printed("sql")
           /\ Len(found_tables) =
                Cardinality({ k \in DOMAIN reports :
                                reports[k].reply.kind = "response"
                                /\ reports[k].reply.status = 200 })
      /\ exitCode = 1 => ~Printed("sql") /\ ~Printed("step")

C7_Witness ==
    /\ SchemaFinished
    /\ exitCode = 0
    /\ Len(found_tables) = 2
    /\ Printed("sql")
    /\ Printed("step")

\* verify() has returned and main has done nothing since
VerifyReturned == script = "simple" /\ pc = "complete"

NonEmptyList(r) == r.kind = "response" /\ r.body.json = "list" /\ r.body.n > 0

\* C8 (as stated): verify issues exactly one read after all inserts; a
\* response that parses as a non-empty sequence prints the count and the
\* first record's fields; every other outcome that is not a transport failure
\* reports "no words found"; a transport failure is reported and the exit
\* code stays 0.
C8_AsStated ==
    /\ VerifyReturned =>
         /\ i = NumWords /\ requests = NumWords + 1
         /\ NonEmptyList(reply) =>
              Tags(out) = << "contains", "sample" >> /\ out[1].num = reply.body.n
         /\ (reply.kind = "response" /\ ~NonEmptyList(reply)) =>
              Tags(out) = << "no_words" >>
         /\ reply.kind = "exception" => Tags(out) = << "could_not_verify" >>
    /\ (script = "simple" /\ pc = "done") => exitCode = 0

\* C8 (amended): verify issues exactly one read after all inserts; a response
\* that parses as a non-empty list whose first element has a 'value' field
\* prints the count and the first record's fields; a response that parses as
\* JSON but not as a non-empty list reports "no words found"; a body that is
\* not JSON, a first element without 'value' (after the count line), and a
\* transport failure are reported as "could not verify"; none of them changes
\* the exit code, which is 0.
C8_Amended ==
    /\ VerifyReturned =>
         /\ i = NumWords /\ requests = NumWords + 1
         /\ (NonEmptyList(reply) /\ reply.body.hasValue) =>
              Tags(out) = << "contains", "sample" >> /\ out[1].num = reply.body.n
         /\ (NonEmptyList(reply) /\ ~reply.body.hasValue) =>
              Tags(out) = << "contains", "could_not_verify" >>
         /\ (reply.kind = "response" /\ reply.body.json \in {"list", "object"}
               /\ ~NonEmptyList(reply)) =>
              Tags(out) = << "no_words" >>
         /\ (reply.kind = "response" /\ reply.body.json = "invalid") =>
              Tags(out) = << "could_not_verify" >>
         /\ reply.kind = "exception" => Tags(out) = << "could_not_verify" >>
    /\ (script = "simple" /\ pc = "done") => exitCode = 0

C8_Witness ==
    /\ VerifyReturned
    /\ reply.kind = "response"
    /\ reply.body.json = "invalid"
    /\ Tags(out) = << "could_not_verify" >>
    /\ added = 15

\* C9 (as stated): the number in the "Loaded SQL schema file (... bytes)"
\* line is the number of bytes of the SQL file.
C9_AsStated ==
    (script = "schema" /\ pc = "verify_tables" /\ checked = 0) =>
      (out[1].tag = "loaded" /\ out[1].num = Len(file.bytes))

\* C10: each of the 15 records is POSTed exactly once, in list order, with no
\* retry; at every point added + failed is the number of records processed,
\* each record changes exactly one of the two counters by exactly 1, and once
\* add_words has returned added + failed = 15.
C10_OnePostPerRecord ==
    /\ [](script \in Seeders =>
            /\ Len(posted) = i
            /\ \A k \in 1..Len(posted) : posted[k] = k
            /\ pc = "add_words" => requests = i
            /\ added + failed = i
            /\ pc \in {"verify", "complete", "done"} => (i = 15 /\ added + failed = 15))
    /\ [][ (script \in Seeders /\ i' # i) =>
             /\ i' = i + 1
             /\ requests' = requests + 1
             /\ \/ added' = added + 1 /\ failed' = failed
                \/ added' = added /\ failed' = failed + 1
         ]_vars

C10_Witness ==
    /\ script = "extended"
    /\ pc = "done"
    /\ posted = << 1, 2, 3, 4, 5, 6, 7, 8, 9, 10, 11, 12, 13, 14, 15 >>
    /\ added = 6
    /\ failed = 9
    /\ timeouts = 3

=============================================================================
